---------------------------- MODULE Spec2Model ----------------------------
(***************************************************************************)
(* Model of the curses socket client: the user interface loop               *)
(* (interface.py), the backend thread (backend.py), the orchestrator        *)
(* (client.py) and the echo server (server.py).                             *)
(*                                                                          *)
(* Text and byte strings are run-length encoded: a string is a sequence of  *)
(* runs <<c, n>> (code point or byte value c, repeated n >= 1 times), with  *)
(* adjacent runs of different c, so that equal strings have equal           *)
(* encodings and a string of several thousand bytes is one run.             *)
(***************************************************************************)
EXTENDS Integers, Sequences, FiniteSets, TLC

(***************************************************************************)
(* Strings                                                                  *)
(***************************************************************************)
Empty == << >>

Run(c, n) == IF n > 0 THEN << <<c, n>> >> ELSE << >>

\* Python's s + t
Cat(s, t) ==
    IF s = << >> THEN t
    ELSE IF t = << >> THEN s
    ELSE IF s[Len(s)][1] = t[1][1]
         THEN SubSeq(s, 1, Len(s) - 1)
              \o << <<t[1][1], s[Len(s)][2] + t[1][2]>> >>
              \o Tail(t)
         ELSE s \o t

RECURSIVE Str(_)
\* The string of a plain sequence of code points.
Str(cs) == IF cs = << >> THEN Empty ELSE Cat(Run(cs[1], 1), Str(Tail(cs)))

RECURSIVE SLen(_)
\* Python's len(s)
SLen(s) == IF s = << >> THEN 0 ELSE s[1][2] + SLen(Tail(s))

RECURSIVE Take(_, _)
\* Python's s[:k], k >= 0
Take(s, k) ==
    IF k <= 0 \/ s = << >> THEN Empty
    ELSE IF s[1][2] >= k THEN << <<s[1][1], k>> >>
    ELSE << s[1] >> \o Take(Tail(s), k - s[1][2])

RECURSIVE Drop(_, _)
\* Python's s[k:], k >= 0
Drop(s, k) ==
    IF k <= 0 \/ s = << >> THEN s
    ELSE IF s[1][2] > k THEN << <<s[1][1], s[1][2] - k>> >> \o Tail(s)
    ELSE Drop(Tail(s), k - s[1][2])

\* Python's s[:-1]
DropLast(s) == Take(s, SLen(s) - 1)

RECURSIVE Split(_, _)
\* Python's s.split(sep) for a one-character separator: the segments of s
\* between separators, one more than the number of separators.
Split(s, sep) ==
    IF s = << >> THEN << Empty >>
    ELSE IF s[1][1] = sep
         THEN << Empty >> \o Split(Drop(s, 1), sep)
         ELSE LET rest == Split(Tail(s), sep)
              IN  << Cat(<< s[1] >>, rest[1]) >> \o Tail(rest)

RECURSIVE Lower(_)
\* Python's s.lower() on the code points the model uses: the ASCII capital
\* letters map to the small ones, every other code point below 192 is kept.
Lower(s) ==
    IF s = << >> THEN Empty
    ELSE LET c == s[1][1]
             lc == IF c >= 65 /\ c <= 90 THEN c + 32 ELSE c
         IN  Cat(Run(lc, s[1][2]), Lower(Tail(s)))

(***************************************************************************)
(* Key classification (interface.py, KEYS and the keymap)                   *)
(***************************************************************************)
KEY_BACKSPACE == 263
KEY_ENTER == 343
KEY_RESIZE == 410

\* string.printable as code points: digits, letters, punctuation, and the
\* whitespace ' \t\n\r\x0b\x0c'
Printable == (32..126) \cup (9..13)

\* The discard list of KEYS
Discard ==
    { 9, 90, 353, 258, 336, 523, 524, 525, 526, 259, 337, 564, 565, 566, 567,
      260, 393, 543, 544, 545, 546, 261, 402, 558, 559, 560, 561, 330, 383,
      517, 518, 519, 520, 331, 538, 262, 391, 533, 534, 535, 536, 360, 386,
      528, 529, 530, 531, 339, 398, 553, 554, 338, 396, 548, 549 }

\* KEYS, in the order of the dictionary
KEYS ==
    << <<"printable", Printable>>,
       <<"backspace", {8, 127, KEY_BACKSPACE}>>,
       <<"enter", {10, 13, KEY_ENTER}>>,
       <<"resize", {KEY_RESIZE}>>,
       <<"esc", {27}>>,
       <<"kill", {4}>>,
       <<"discard", Discard>> >>

RECURSIVE KeymapUpTo(_, _)
\* The value of self.keymap.get(key, "none") after the first i entries of
\* KEYS have been stored: a later entry overwrites an earlier one.
KeymapUpTo(key, i) ==
    IF i = 0 THEN "none"
    ELSE IF key \in KEYS[i][2] THEN KEYS[i][1]
    ELSE KeymapUpTo(key, i - 1)

keymap(key) == KeymapUpTo(key, Len(KEYS))

RECURSIVE Digits(_)
\* The decimal digits of n >= 0, as code points
Digits(n) ==
    IF n < 10 THEN << 48 + n >>
    ELSE Digits(n \div 10) \o << 48 + (n % 10) >>

(***************************************************************************)
(* Encoding and decoding (backend.py, _handle_io)                            *)
(***************************************************************************)
LF == 10

RECURSIVE Encode(_)
\* str.encode(): the UTF-8 bytes of a text
Encode(s) ==
    IF s = << >> THEN Empty
    ELSE LET c == s[1][1]
             one == IF c < 128 THEN << c >>
                    ELSE IF c < 2048
                    THEN << 192 + (c \div 64), 128 + (c % 64) >>
                    ELSE IF c < 65536
                    THEN << 224 + (c \div 4096), 128 + ((c \div 64) % 64),
                            128 + (c % 64) >>
                    ELSE << 240 + (c \div 262144), 128 + ((c \div 4096) % 64),
                            128 + ((c \div 64) % 64), 128 + (c % 64) >>
         IN  IF c < 128
             THEN Cat(<< s[1] >>, Encode(Tail(s)))
             ELSE Cat(Str(one), Encode(Drop(s, 1)))

IsCont(b) == b >= 128 /\ b <= 191

\* The bytes at positions 1..k of s as a plain sequence (k small)
Plain(s, k) == [ i \in 1..k |-> Take(Drop(s, i - 1), 1)[1][1] ]

\* The number of bytes of the UTF-8 sequence a lead byte starts, 0 when the
\* byte cannot start one
SeqLen(b) ==
    IF b < 128 THEN 1
    ELSE IF b >= 194 /\ b <= 223 THEN 2
    ELSE IF b >= 224 /\ b <= 239 THEN 3
    ELSE IF b >= 240 /\ b <= 244 THEN 4
    ELSE 0

\* Whether the plain byte sequence p is one well-formed UTF-8 sequence
WellFormed(p) ==
    /\ Len(p) = SeqLen(p[1])
    /\ \A i \in 2..Len(p) : IsCont(p[i])
    /\ p[1] = 224 => p[2] >= 160
    /\ p[1] = 237 => p[2] <= 159
    /\ p[1] = 240 => p[2] >= 144
    /\ p[1] = 244 => p[2] <= 143

\* The code point of a well-formed sequence
CodePoint(p) ==
    IF Len(p) = 1 THEN p[1]
    ELSE IF Len(p) = 2 THEN (p[1] - 192) * 64 + (p[2] - 128)
    ELSE IF Len(p) = 3
    THEN (p[1] - 224) * 4096 + (p[2] - 128) * 64 + (p[3] - 128)
    ELSE (p[1] - 240) * 262144 + (p[2] - 128) * 4096 + (p[3] - 128) * 64
         + (p[4] - 128)

RECURSIVE Valid(_)
\* Whether bytes.decode() succeeds
Valid(s) ==
    IF s = << >> THEN TRUE
    ELSE IF s[1][1] < 128 THEN Valid(Tail(s))
    ELSE LET n == SeqLen(s[1][1])
         IN  /\ n > 0
             /\ SLen(s) >= n
             /\ WellFormed(Plain(s, n))
             /\ Valid(Drop(s, n))

RECURSIVE Decode(_)
\* bytes.decode() of valid UTF-8
Decode(s) ==
    IF s = << >> THEN Empty
    ELSE IF s[1][1] < 128 THEN Cat(<< s[1] >>, Decode(Tail(s)))
    ELSE LET n == SeqLen(s[1][1])
         IN  Cat(Run(CodePoint(Plain(s, n)), 1), Decode(Drop(s, n)))

\* A hexlify in capital letters
HexDigitUpper(d) == IF d < 10 THEN 48 + d ELSE 55 + d

\* hexlify of one nibble
HexDigit(d) == IF d < 10 THEN 48 + d ELSE 87 + d

\* chr(byte) for a printable byte, else the token \xHH
Token(byte) ==
    IF byte \in Printable THEN Run(byte, 1)
    ELSE Str(<< 92, 120, HexDigit(byte \div 16), HexDigit(byte % 16) >>)

RECURSIVE Escape(_)
\* The fallback of the except branch: every byte rendered on its own
Escape(s) ==
    IF s = << >> THEN Empty
    ELSE IF s[1][1] \in Printable THEN Cat(<< s[1] >>, Escape(Tail(s)))
    ELSE Cat(Token(s[1][1]), Escape(Drop(s, 1)))

\* The text of one chunk of received bytes
Text(data) == IF Valid(data) THEN Decode(data) ELSE Escape(data)

\* The messages the read branch puts for a non-empty chunk
Lines(data) == Split(Text(data), LF)

(***************************************************************************)
(* Program constants                                                        *)
(***************************************************************************)
\* ';quit'
QUIT == Str(<< 59, 113, 117, 105, 116 >>)

\* The slice of one send, backend.py line 56
SendSize == 1024
\* The size of one recv of the client
RecvSize == 4096
\* The size of one recv of the echo server
EchoSize == 1000

(***************************************************************************)
(* Bounds and inputs of the model                                           *)
(***************************************************************************)
\* Lines the user submits with Enter in a session
MaxSubmits == 1
\* Chunks a server other than the echo server sends on its own
MaxServerSends == 1

\* The lines a user types: in one session the user types one of them, any
\* number of times.  A key that adds to the input buffer is pressed only when
\* the buffer stays the beginning of the line, and Enter only on the whole
\* line or on the empty buffer; every other key is pressed at any time.
TypedLines ==
    { QUIT,
      Str(<< 59, 113, 117, 105, 84 >>),     \* ;quiT
      Str(<< 104 >>) }                      \* h

\* The key codes getch returns: -1 (no key within the timeout), letters,
\* Enter, Delete, Escape, Ctrl-D, KEY_RESIZE and Down
KeyCodes ==
    { -1, 59, 113, 117, 105, 116, 84, 104,
      10, 127, 27, 4, KEY_RESIZE, 258 }

\* What a server sends on its own: in one session, one of these chunks, any
\* number of times
ServerChunks ==
    { Str(<< 97, 10, 98, 10, 99 >>),        \* a\nb\nc
      Str(<< 59, 81, 117, 105, 116, 10 >>) } \* ;Quit\n

\* The send call of one _handle_io that raises: 0 for none
SendFaults == { 0, 1, 2 }

\* Where curses raises curses.error in one tick of the main loop
CursesFaults == { "none", "geom", "doupdate", "input", "output" }

IsPrefix(p, s) == Take(s, SLen(p)) = p

(***************************************************************************)
(* State                                                                    *)
(***************************************************************************)
VARIABLES
    uiPc,           \* main thread: "init", "loop", "put", "joined"
    active,         \* UserInterface.active
    buffer_input,   \* UserInterface.buffer["input"]
    buffer_output,  \* UserInterface.buffer["output"], the scrollback
    input_queue,    \* queues["input"]: user interface -> backend
    output_queue,   \* queues["output"]: backend -> user interface
    netPc,          \* backend thread: "start", "loop", "done", "crashed"
    running,        \* Backend.running
    input_buffer,   \* Backend.input_buffer
    output_buffer,  \* Backend.output_buffer
    sock,           \* the socket: "none", "registered", "unregistered"; it
                    \* would be "closed" after a close(), which nothing calls
    wire,           \* every byte the client has sent, in order
    echoed,         \* how many bytes of wire have come back from the echo server
    peerClosed,     \* a recv has found the connection closed by the peer
    submits,        \* lines submitted so far
    serverSends,    \* chunks received that a server sent on its own
    sentLog,        \* history: every put on input_queue, [by, msg]
    netPopped,      \* history: every get from input_queue, [msg, bytes sent]
    recvLog,        \* history: every put on output_queue, [by, msg]
    uiPopped,       \* history: every get from output_queue
    reads,          \* history: every read branch, [data, put]
    selects,        \* history: "none", "some", "afterQuit"
    userLine,       \* the line the user of this session types
    serverChunk,    \* the chunk the server of this session sends on its own
    handled         \* history: the last call of _handle_key that is recorded,
                    \* [key, category, before]; NoKey when none is

vars ==
    << uiPc, active, buffer_input, buffer_output, input_queue, output_queue,
       netPc, running, input_buffer, output_buffer, sock, wire, echoed,
       peerClosed, submits, serverSends, sentLog, netPopped, recvLog,
       uiPopped, reads, selects, userLine, serverChunk, handled >>

uiVars ==
    << uiPc, active, buffer_input, buffer_output, submits, uiPopped, handled >>
netVars ==
    << netPc, running, input_buffer, output_buffer, sock, netPopped, reads,
       selects >>
envVars == << echoed, peerClosed, serverSends, userLine, serverChunk >>

NoKey == [ key |-> -1, category |-> "nokey", before |-> Empty ]

\* UserInterface.__init__, Backend.__init__ and client.py up to start()
Init ==
    /\ uiPc = "init"
    /\ active = FALSE
    /\ buffer_input = Empty
    /\ buffer_output = << >>
    /\ input_queue = << >>
    /\ output_queue = << >>
    /\ netPc = "start"
    /\ running = FALSE
    /\ input_buffer = Empty
    /\ output_buffer = Empty
    /\ sock = "none"
    /\ wire = Empty
    /\ echoed = 0
    /\ peerClosed = FALSE
    /\ submits = 0
    /\ serverSends = 0
    /\ sentLog = << >>
    /\ netPopped = << >>
    /\ recvLog = << >>
    /\ uiPopped = << >>
    /\ reads = << >>
    /\ selects = "none"
    /\ userLine \in TypedLines
    /\ serverChunk \in ServerChunks
    /\ handled = NoKey

(***************************************************************************)
(* The queues (queue.SimpleQueue)                                           *)
(***************************************************************************)
\* put(item)
Put(q, item) == Append(q, item)
\* A queue that returns its newest item
GetLast(q) == [ item |-> q[Len(q)], rest |-> SubSeq(q, 1, Len(q) - 1) ]

\* get() / get_nowait() on a non-empty queue: the item returned and the
\* queue left
Get(q) == [ item |-> Head(q), rest |-> Tail(q) ]

(***************************************************************************)
(* The user interface (interface.py) and the orchestrator (client.py)       *)
(***************************************************************************)
\* launch, _launch_interface and the first line of _main_loop.  The curses
\* set-up is taken to succeed (_redraw_windows catches its own errors, and
\* _main_loop sets active afterwards in any case).
Launch ==
    /\ uiPc = "init"
    /\ uiPc' = "loop"
    /\ active' = TRUE
    /\ UNCHANGED << buffer_input, buffer_output, submits, uiPopped,
                    handled, input_queue, output_queue, sentLog, recvLog >>
    /\ UNCHANGED << netVars, envVars, wire >>

\* _key_undefined: f"(?{key})"
Undefined(key) == Cat(Str(<< 40, 63 >>), Cat(Str(Digits(key)), Str(<< 41 >>)))

\* buffer["input"] after _handle_key(key)
KeyBuffer(buf, key) ==
    LET cat == keymap(key)
    IN  IF cat = "backspace" THEN DropLast(buf)
        ELSE IF cat \in { "enter", "esc" } THEN Empty
        ELSE IF cat = "printable" THEN Cat(buf, Run(key, 1))
        ELSE IF cat = "none" THEN Cat(buf, Undefined(key))
        ELSE buf

\* Whether the user presses this key now
Pressed(key) ==
    \/ key = -1
    \/ IF keymap(key) \in { "printable", "none" }
       THEN IsPrefix(KeyBuffer(buffer_input, key), userLine)
       ELSE keymap(key) = "enter" =>
                /\ submits < MaxSubmits
                /\ buffer_input \in { userLine, Empty }

\* One pass of the while loop of _main_loop: is_term_resized and
\* _redraw_windows, doupdate, _handle_input, _handle_output.  fault is where
\* curses raises curses.error in this pass: "geom" in _redraw_windows (which
\* catches it and clears active; the pass goes on), "doupdate" in doupdate,
\* "input" in _redraw_input, "output" in _redraw_output (the loop catches
\* these three and clears active; the rest of the pass is skipped).
Tick(key, fault) ==
    /\ uiPc = "loop"
    /\ active
    /\ Pressed(key)
    /\ LET cat == IF key = -1 THEN "nokey" ELSE keymap(key)
           \* _redraw_windows at the top of the loop or in _key_resize
           geom == fault = "geom"
           \* doupdate raises: the rest of the pass is skipped
           skipAll == fault = "doupdate"
           buf == IF key = -1 THEN buffer_input
                  ELSE KeyBuffer(buffer_input, key)
           \* _redraw_input raises: _handle_output is skipped
           skipOut == buf # buffer_input /\ fault = "input"
           pop == ~skipAll /\ ~skipOut /\ output_queue # << >>
           got == Get(output_queue)
           quit == pop /\ Lower(got.item) = QUIT
       IN  IF skipAll
           THEN /\ active' = FALSE
                /\ UNCHANGED << buffer_input, buffer_output, submits, uiPopped,
                                input_queue, output_queue, sentLog >>
           ELSE /\ buffer_input' = buf
                /\ submits' = IF cat = "enter" THEN submits + 1 ELSE submits
                /\ IF cat = "enter"
                   THEN /\ input_queue' = Put(input_queue, buffer_input)
                        /\ sentLog' = Append(sentLog,
                                         [by |-> "ui", msg |-> buffer_input])
                   ELSE UNCHANGED << input_queue, sentLog >>
                /\ IF pop
                   THEN /\ output_queue' = got.rest
                        /\ uiPopped' = Append(uiPopped, got.item)
                        /\ buffer_output' =
                              IF quit THEN buffer_output
                              ELSE Append(buffer_output, got.item)
                   ELSE UNCHANGED << output_queue, uiPopped, buffer_output >>
                /\ fault = "input" => skipOut
                /\ fault = "output" => pop /\ ~quit
                /\ active' = ~( \/ geom
                                \/ cat = "kill"
                                \/ skipOut
                                \/ quit
                                \/ fault = "output" )
    /\ uiPc' = uiPc
    /\ UNCHANGED << handled, recvLog, netVars, envVars, wire >>

\* A pass of the main loop, for every key and every fault
MainLoopPass ==
    /\ uiPc = "loop"
    /\ \E key \in KeyCodes, fault \in CursesFaults : Tick(key, fault)

\* _signal_handler on SIGINT while the main loop runs
Sigint ==
    /\ uiPc = "loop"
    /\ active
    /\ active' = FALSE
    /\ UNCHANGED << uiPc, buffer_input, buffer_output, submits, uiPopped,
                    handled, input_queue, output_queue, sentLog, recvLog >>
    /\ UNCHANGED << netVars, envVars, wire >>

\* A client.py that joins the thread without the put
MainPutSkipped ==
    /\ uiPc = "loop"
    /\ ~active
    /\ uiPc' = "put"
    /\ UNCHANGED << active, buffer_input, buffer_output, submits, uiPopped,
                    handled, input_queue, sentLog, output_queue, recvLog >>
    /\ UNCHANGED << netVars, envVars, wire >>

\* The while condition of _main_loop fails, launch returns, and client.py
\* goes on: input_queue.put(";quit")
MainPut ==
    /\ uiPc = "loop"
    /\ ~active
    /\ uiPc' = "put"
    /\ input_queue' = Put(input_queue, QUIT)
    /\ sentLog' = Append(sentLog, [by |-> "main", msg |-> QUIT])
    /\ UNCHANGED << active, buffer_input, buffer_output, submits, uiPopped,
                    handled, output_queue, recvLog >>
    /\ UNCHANGED << netVars, envVars, wire >>

\* client.py: socket_client.join() returns once the thread has ended
Join ==
    /\ uiPc = "put"
    /\ netPc \in { "done", "crashed" }
    /\ uiPc' = "joined"
    /\ UNCHANGED << active, buffer_input, buffer_output, submits, uiPopped,
                    handled, input_queue, output_queue, sentLog, recvLog >>
    /\ UNCHANGED << netVars, envVars, wire >>

(***************************************************************************)
(* The backend thread (backend.py)                                          *)
(***************************************************************************)
\* A _connect that returns True from its except branch
ConnectReturnsTrue(outcome) ==
    /\ netPc = "start"
    /\ netPc' = IF outcome = "error" THEN "crashed" ELSE "loop"
    /\ running' = (outcome # "error")
    /\ sock' = IF outcome = "ok" THEN "registered" ELSE sock
    /\ UNCHANGED << input_buffer, output_buffer, netPopped, reads, selects >>
    /\ UNCHANGED << uiVars, envVars, wire, input_queue, output_queue, sentLog,
                    recvLog >>

\* run, first line, and _connect.  outcome: "ok"; "refused" for one of the
\* exceptions _connect catches (gaierror, timeout, ConnectionRefusedError);
\* "error" for any other exception of connect, which ends the thread.
Connect(outcome) ==
    /\ netPc = "start"
    /\ netPc' = IF outcome = "error" THEN "crashed" ELSE "loop"
    /\ running' = (outcome = "ok")
    /\ sock' = IF outcome = "ok" THEN "registered" ELSE sock
    /\ UNCHANGED << input_buffer, output_buffer, netPopped, reads, selects >>
    /\ UNCHANGED << uiVars, envVars, wire, input_queue, output_queue, sentLog,
                    recvLog >>

\* A write loop that sends the first slice and the line feed and drops the
\* rest of the line
WriteLoopOneSlice(buf, sent, n, fault) ==
    IF buf = Empty THEN [ sent |-> sent, buf |-> buf, raised |-> FALSE ]
    ELSE IF n = fault THEN [ sent |-> sent, buf |-> buf, raised |-> TRUE ]
    ELSE [ sent |-> Cat(Cat(sent, Encode(Take(buf, SendSize))), Run(LF, 1)),
           buf |-> Empty, raised |-> FALSE ]

RECURSIVE WriteLoop(_, _, _, _)
\* The while loop of the write branch on input_buffer = buf, given the bytes
\* sent so far in this call and the number n of the next send call; the send
\* call number fault raises.  A send that does not raise takes all its bytes.
WriteLoop(buf, sent, n, fault) ==
    IF buf = Empty THEN [ sent |-> sent, buf |-> buf, raised |-> FALSE ]
    ELSE IF n = fault THEN [ sent |-> sent, buf |-> buf, raised |-> TRUE ]
    ELSE LET sent1 == Cat(sent, Encode(Take(buf, SendSize)))
             buf1 == Drop(buf, SendSize)
         IN  IF buf1 # Empty THEN WriteLoop(buf1, sent1, n + 1, fault)
             ELSE IF n + 1 = fault
             THEN [ sent |-> sent1, buf |-> buf1, raised |-> TRUE ]
             ELSE [ sent |-> Cat(sent1, Run(LF, 1)), buf |-> buf1,
                    raised |-> FALSE ]

\* A write branch that does not clear input_buffer on ';quit'
WriteBranchSendsQuit(q, fault) ==
    LET got == Get(q)
        loop == WriteLoop(got.item, Empty, 1, fault)
    IN  [ queue |-> got.rest, msg |-> got.item, quit |-> got.item = QUIT,
          sent |-> loop.sent, buf |-> loop.buf, raised |-> loop.raised ]

\* The write branch of _handle_io on a non-empty queue
WriteBranch(q, fault) ==
    LET got == Get(q)
        quit == got.item = QUIT
        loop == WriteLoop(IF quit THEN Empty ELSE got.item, Empty, 1, fault)
    IN  [ queue |-> got.rest, msg |-> got.item, quit |-> quit,
          sent |-> loop.sent, buf |-> loop.buf, raised |-> loop.raised ]

RECURSIVE RecvLoop(_, _, _)
\* data = sock.recv(4096) and the while loop after it, on the bytes buf that
\* have arrived: a recv returns up to 4096 of them, b'' when none is left and
\* the peer has closed, and raises BlockingIOError when none is left and the
\* peer has not closed.
RecvLoop(buf, obuf, closed) ==
    IF buf = Empty
    THEN [ data |-> Empty, obuf |-> obuf, raised |-> ~closed ]
    ELSE LET data == Take(buf, RecvSize)
         IN  IF SLen(data) = RecvSize
             THEN RecvLoop(Drop(buf, RecvSize), Cat(obuf, data), closed)
             ELSE [ data |-> data, obuf |-> obuf, raised |-> FALSE ]

\* A read branch that splits and puts whatever recv returned
ReadPutsUnchecked(data) == Lines(data)

\* The messages the read branch puts for the data of its last recv
ReadPuts(data) == IF data = Empty THEN << >> ELSE Lines(data)

\* Whether the read branch leaves running set
ReadRunning(data, run) == IF data = Empty THEN FALSE ELSE run

\* The while condition of run
Looping == netPc = "loop" /\ running

(***************************************************************************)
(* The peer: the echo server (server.py) or any other server                *)
(***************************************************************************)
\* EchoServer._read: recv(1000) of the bytes not yet echoed, and send
EchoData == Take(Drop(wire, echoed), EchoSize)

\* The bytes that may have arrived when select returns: none, what the echo
\* server has sent back (one _read, or all of them), or the chunk a server
\* sends on its own
Arrived ==
    { [ from |-> "none", bytes |-> Empty ] }
    \cup { [ from |-> "echo", bytes |-> b ] :
             b \in { EchoData, Drop(wire, echoed) } \ { Empty } }
    \cup IF serverSends < MaxServerSends
         THEN { [ from |-> "server", bytes |-> serverChunk ] }
         ELSE { }

\* What the socket holds when select returns: the bytes that have arrived,
\* whether the peer has closed after them, and whether the connection was
\* reset (the first recv then raises ConnectionResetError)
Arrivals ==
    { a \in [ data : Arrived, closed : BOOLEAN, reset : BOOLEAN ] :
        /\ peerClosed => a.closed /\ a.data.bytes = Empty
        /\ a.reset => ~a.closed /\ a.data.bytes = Empty }

\* One pass of the while loop of run: select, and _handle_io with the mask
\* select returns.  The mask has EVENT_READ exactly when the socket is
\* readable; writable: whether it has EVENT_WRITE; sendFault: the send call
\* that raises.  An exception ends the thread.
HandleIO(a, writable, sendFault) ==
    /\ Looping
    /\ LET readable == a.data.bytes # Empty \/ a.closed \/ a.reset
           doWrite == writable /\ input_queue # << >>
           w == WriteBranch(input_queue, sendFault)
           wRaised == doWrite /\ w.raised
           run1 == IF doWrite /\ w.quit THEN FALSE ELSE running
           doRead == readable /\ ~wRaised
           r == RecvLoop(a.data.bytes, output_buffer, a.closed)
           rRaised == doRead /\ (a.reset \/ r.raised)
           readOk == doRead /\ ~rRaised
           puts == ReadPuts(r.data)
           run2 == IF readOk THEN ReadRunning(r.data, run1) ELSE run1
       IN  /\ readable \/ writable
           /\ sendFault # 0 => wRaised
           /\ IF doWrite
              THEN /\ input_queue' = w.queue
                   /\ input_buffer' = w.buf
                   /\ wire' = Cat(wire, w.sent)
                   /\ netPopped' = Append(netPopped,
                                      [ msg |-> w.msg, bytes |-> w.sent ])
              ELSE UNCHANGED << input_queue, input_buffer, wire, netPopped >>
           /\ IF doRead /\ ~a.reset
              THEN /\ output_buffer' =
                          IF r.raised THEN r.obuf ELSE Cat(r.obuf, r.data)
                   /\ echoed' = IF a.data.from = "echo"
                                THEN echoed + SLen(a.data.bytes) ELSE echoed
                   /\ serverSends' = IF a.data.from = "server"
                                     THEN serverSends + 1 ELSE serverSends
                   /\ peerClosed' = a.closed
              ELSE UNCHANGED << output_buffer, echoed, serverSends,
                                peerClosed >>
           /\ UNCHANGED << userLine, serverChunk >>
           /\ IF readOk
              THEN /\ output_queue' = output_queue \o puts
                   /\ recvLog' = recvLog \o
                          [ i \in 1..Len(puts) |->
                              [ by |-> "io", msg |-> puts[i] ] ]
                   /\ reads' = Append(reads, [ data |-> r.data, put |-> puts ])
              ELSE UNCHANGED << output_queue, recvLog, reads >>
           /\ running' = run2
           /\ netPc' = IF wRaised \/ rRaised THEN "crashed" ELSE netPc
           /\ sock' = IF ~(wRaised \/ rRaised) /\ ~run2
                      THEN "unregistered" ELSE sock
    /\ selects' = IF \E i \in 1..Len(netPopped) : netPopped[i].msg = QUIT
                  THEN "afterQuit" ELSE "some"
    /\ UNCHANGED << uiVars, sentLog >>

\* A pass of the loop of run, for everything the socket may hold
RunPass ==
    /\ Looping
    /\ \E a \in Arrivals, writable \in BOOLEAN, sendFault \in SendFaults :
           HandleIO(a, writable, sendFault)

\* A run that ends the thread without the last put
RunEndSilent ==
    /\ netPc = "loop"
    /\ ~running
    /\ netPc' = "done"
    /\ UNCHANGED << running, input_buffer, output_buffer, sock, netPopped,
                    reads, selects, output_queue, recvLog >>
    /\ UNCHANGED << uiVars, envVars, wire, input_queue, sentLog >>

\* run, last line: output_queue.put(';quit'), and the thread ends
RunEnd ==
    /\ netPc = "loop"
    /\ ~running
    /\ output_queue' = Put(output_queue, QUIT)
    /\ recvLog' = Append(recvLog, [ by |-> "run", msg |-> QUIT ])
    /\ netPc' = "done"
    /\ UNCHANGED << running, input_buffer, output_buffer, sock, netPopped,
                    reads, selects >>
    /\ UNCHANGED << uiVars, envVars, wire, input_queue, sentLog >>

(***************************************************************************)
(* Specification                                                            *)
(***************************************************************************)
Next ==
    \/ Launch
    \/ MainLoopPass
    \/ Sigint
    \/ MainPut
    \/ Join
    \/ \E outcome \in { "ok", "refused", "error" } : Connect(outcome)
    \/ RunPass
    \/ RunEnd

Spec == Init /\ [][Next]_vars

\* A session in which the user types h and the server sends a\nb\nc
LiveInit ==
    /\ Init
    /\ userLine = Str(<< 104 >>)
    /\ serverChunk = Str(<< 97, 10, 98, 10, 99 >>)

(***************************************************************************)
(* Scheduling                                                               *)
(***************************************************************************)
\* A pass of the main loop in which getch times out and nothing raises: the
\* loop keeps running with no action of the user
IdleTick == Tick(-1, "none")

\* Nothing has arrived and the peer has not closed
Quiet ==
    [ data |-> [ from |-> "none", bytes |-> Empty ], closed |-> FALSE,
      reset |-> FALSE ]

\* A pass of the loop of run in which select reports the socket writable,
\* nothing has arrived and no send raises
WritablePass == Looping /\ HandleIO(Quiet, TRUE, 0)

\* A pass of the loop of run in which select reports the socket readable
\* because the peer has closed the connection
PeerClosePass ==
    /\ Looping
    /\ \E a \in Arrivals, writable \in BOOLEAN, sendFault \in SendFaults :
           a.closed /\ HandleIO(a, writable, sendFault)

\* Both threads keep running: the main thread goes through launch, the main
\* loop, the put and the join; the backend thread through connect (which
\* returns or raises within its timeout), the loop of run and its last line
Threads ==
    /\ WF_vars(Launch)
    /\ WF_vars(IdleTick)
    /\ WF_vars(MainPut)
    /\ WF_vars(Join)
    /\ WF_vars(\E outcome \in { "ok", "refused", "error" } : Connect(outcome))
    /\ WF_vars(RunEnd)

\* The threads keep running and the socket keeps becoming writable
WritableSpec ==
    LiveInit /\ [][Next]_vars /\ Threads /\ WF_vars(WritablePass)

\* The threads keep running and the peer closes the connection
PeerCloseSpec ==
    LiveInit /\ [][Next]_vars /\ Threads /\ WF_vars(PeerClosePass)

(***************************************************************************)
(* The key table on its own                                                 *)
(***************************************************************************)
\* The largest key code getch returns here: the table of KEYS ends at 567
MaxKey == 600

\* _handle_key(key) and the handler it calls, recorded in handled; one call
\* is recorded in a session.  _key_resize is taken not to raise.
HandleKey(key) ==
    /\ uiPc = "loop"
    /\ active
    /\ handled = NoKey
    /\ handled' = [ key |-> key, category |-> keymap(key),
                    before |-> buffer_input ]
    /\ buffer_input' = KeyBuffer(buffer_input, key)
    /\ active' = (keymap(key) # "kill")
    /\ IF keymap(key) = "enter"
       THEN /\ input_queue' = Put(input_queue, buffer_input)
            /\ sentLog' = Append(sentLog, [ by |-> "ui", msg |-> buffer_input ])
            /\ submits' = submits + 1
       ELSE UNCHANGED << input_queue, sentLog, submits >>
    /\ UNCHANGED << uiPc, buffer_output, uiPopped, output_queue, recvLog >>
    /\ UNCHANGED << netVars, envVars, wire >>

\* Any key at all is pressed
AnyKey == \E key \in 0..MaxKey : HandleKey(key)

KeyNext == Launch \/ AnyKey

KeySpec == Init /\ [][KeyNext]_vars

(***************************************************************************)
(* The main loop in steps: _handle_input, then the check and the get of     *)
(* _handle_output as two steps the backend thread may run between           *)
(***************************************************************************)
\* _handle_input with a key pressed, nothing raising
HandleInput(key) ==
    /\ uiPc = "loop"
    /\ active
    /\ key # -1
    /\ Pressed(key)
    /\ buffer_input' = KeyBuffer(buffer_input, key)
    /\ active' = (keymap(key) # "kill")
    /\ IF keymap(key) = "enter"
       THEN /\ input_queue' = Put(input_queue, buffer_input)
            /\ sentLog' = Append(sentLog, [ by |-> "ui", msg |-> buffer_input ])
            /\ submits' = submits + 1
       ELSE UNCHANGED << input_queue, sentLog, submits >>
    /\ UNCHANGED << uiPc, buffer_output, uiPopped, handled, output_queue,
                    recvLog >>
    /\ UNCHANGED << netVars, envVars, wire >>

InputStep == \E key \in KeyCodes : HandleInput(key)

\* A _handle_output that calls get() without asking empty() first
OutputReadyUnchecked == TRUE

\* _handle_output: not self.queues["output"].empty()
OutputReady == output_queue # << >>

\* _handle_output up to the call of get()
CheckOutput ==
    /\ uiPc = "loop"
    /\ active
    /\ OutputReady
    /\ uiPc' = "checked"
    /\ UNCHANGED << active, buffer_input, buffer_output, submits, uiPopped,
                    handled, input_queue, output_queue, sentLog, recvLog >>
    /\ UNCHANGED << netVars, envVars, wire >>

\* _handle_output from the call of get(): on an empty queue get() suspends
\* the thread until a put, and the main thread is "blocked"
GetOutput ==
    /\ uiPc = "checked"
    /\ IF output_queue = << >>
       THEN /\ uiPc' = "blocked"
            /\ UNCHANGED << active, buffer_output, uiPopped, output_queue >>
       ELSE LET got == Get(output_queue)
            IN  /\ uiPc' = "loop"
                /\ output_queue' = got.rest
                /\ uiPopped' = Append(uiPopped, got.item)
                /\ active' = (Lower(got.item) # QUIT)
                /\ buffer_output' =
                      IF Lower(got.item) = QUIT THEN buffer_output
                      ELSE Append(buffer_output, got.item)
    /\ UNCHANGED << buffer_input, submits, handled, input_queue, sentLog,
                    recvLog >>
    /\ UNCHANGED << netVars, envVars, wire >>

StepNext ==
    \/ Launch
    \/ InputStep
    \/ CheckOutput
    \/ GetOutput
    \/ MainPut
    \/ Join
    \/ \E outcome \in { "ok", "refused", "error" } : Connect(outcome)
    \/ RunPass
    \/ RunEnd

StepSpec == LiveInit /\ [][StepNext]_vars

(***************************************************************************)
(* The backend on long lines                                                *)
(***************************************************************************)
\* The longest line submitted, in slices of one send
MaxSlices == 2

\* Line lengths around the multiples of the slice
LineLengths ==
    { 1 } \cup { k * SendSize + d : k \in 1..MaxSlices, d \in { -1, 0, 1 } }

\* Lines of one letter, lines that end in two other letters, and a line of
\* one character of two bytes
LongLines ==
    { Run(97, n) : n \in LineLengths }
    \cup { Cat(Run(97, n - 1), Run(98, 2)) : n \in LineLengths \ { 1 } }
    \cup { Str(<< 233 >>) }

\* The user has typed a line and pressed Enter before the backend thread
\* has run
WriteInit ==
    /\ uiPc = "loop"
    /\ active = TRUE
    /\ buffer_input = Empty
    /\ buffer_output = << >>
    /\ userLine \in LongLines
    /\ input_queue = << userLine >>
    /\ sentLog = << [ by |-> "ui", msg |-> userLine ] >>
    /\ submits = 1
    /\ output_queue = << >>
    /\ netPc = "start"
    /\ running = FALSE
    /\ input_buffer = Empty
    /\ output_buffer = Empty
    /\ sock = "none"
    /\ wire = Empty
    /\ echoed = 0
    /\ peerClosed = FALSE
    /\ serverSends = 0
    /\ netPopped = << >>
    /\ recvLog = << >>
    /\ uiPopped = << >>
    /\ reads = << >>
    /\ selects = "none"
    /\ serverChunk = Str(<< 97, 10, 98, 10, 99 >>)
    /\ handled = NoKey

BackendNext ==
    \/ \E outcome \in { "ok", "refused", "error" } : Connect(outcome)
    \/ RunPass
    \/ RunEnd

WriteSpec == WriteInit /\ [][BackendNext]_vars

(***************************************************************************)
(* The backend on what a server sends                                       *)
(***************************************************************************)
\* The most bytes available at a readable event, in reads of full size
MaxRecvs == 2
\* The longest chunk of arbitrary bytes
MaxChunkLen == 3

\* Bytes of every kind: a letter, the line feed, a control byte, a byte that
\* is never valid in UTF-8, and the two bytes of one valid character
ChunkBytes == { 104, 10, 0, 255, 195, 169 }

RECURSIVE Chunks(_)
\* The plain byte sequences of length n over ChunkBytes
Chunks(n) ==
    IF n = 0 THEN { << >> }
    ELSE { Append(c, b) : c \in Chunks(n - 1), b \in ChunkBytes }

\* Short chunks of arbitrary bytes
ShortChunks == { Str(c) : c \in UNION { Chunks(n) : n \in 1..MaxChunkLen } }

\* Chunks of one letter with lengths around the multiples of the size of
\* one recv, and a full recv followed by a line feed and a letter
BulkChunks ==
    { Run(97, k * RecvSize + d) : k \in 1..MaxRecvs, d \in { -1, 0, 1 } }
    \cup { Cat(Run(97, RecvSize), Str(<< 10, 98 >>)) }

\* The user does nothing and the server sends a chunk on its own
ReadInit ==
    /\ uiPc = "init"
    /\ active = FALSE
    /\ buffer_input = Empty
    /\ buffer_output = << >>
    /\ userLine = Empty
    /\ input_queue = << >>
    /\ sentLog = << >>
    /\ submits = 0
    /\ output_queue = << >>
    /\ netPc = "start"
    /\ running = FALSE
    /\ input_buffer = Empty
    /\ output_buffer = Empty
    /\ sock = "none"
    /\ wire = Empty
    /\ echoed = 0
    /\ peerClosed = FALSE
    /\ serverSends = 0
    /\ netPopped = << >>
    /\ recvLog = << >>
    /\ uiPopped = << >>
    /\ reads = << >>
    /\ selects = "none"
    /\ serverChunk \in ShortChunks \cup BulkChunks
    /\ handled = NoKey

ReadSpec == ReadInit /\ [][BackendNext]_vars

(***************************************************************************)
(* Properties                                                               *)
(***************************************************************************)
\* The positions of a log whose entry was put by `by`
PutBy(log, by) == { i \in 1..Len(log) : log[i].by = by }

\* The positions of a log that hold the message ';quit'
Quits(log) == { i \in 1..Len(log) : log[i].msg = QUIT }

\* The messages of a log, in order
Msgs(log) == [ i \in 1..Len(log) |-> log[i].msg ]

RECURSIVE CatAll(_)
\* The concatenation of the bytes sent for the messages popped
CatAll(log) ==
    IF log = << >> THEN Empty ELSE Cat(log[1].bytes, CatAll(Tail(log)))

\* _connect has returned False
ConnectFailed == sock = "none" /\ netPc \in { "loop", "done" }

\* The last byte of a non-empty string
LastByte(s) == s[Len(s)][1]

\* Whether the message is shown in the scrollback when popped
Shown(msg) == Lower(msg) # QUIT

\* C1 (as stated): in a session whose two threads have ended, the backend
\* thread by returning from run, exactly one ';quit' has been put on the
\* queue from the user interface to the backend and exactly one on the queue
\* from the backend to the user interface.
C1_OneQuitEachWay ==
    (uiPc = "joined" /\ netPc = "done") =>
        /\ Cardinality(Quits(sentLog)) = 1
        /\ Cardinality(Quits(recvLog)) = 1

\* C1 (amended): when both threads have ended, client.py has put exactly one
\* message on the queue to the backend, ';quit', after every line of the
\* user, and run has put ';quit' on the queue to the user interface exactly
\* once if it returned and never if the thread ended by an exception; the
\* other ';quit' on the queue to the backend are the lines ';quit' the user
\* submitted, so the queue has held more than one whenever there is such a line.
C1_OneQuitPerSender ==
    uiPc = "joined" =>
        /\ Cardinality(PutBy(sentLog, "main")) = 1
        /\ sentLog[Len(sentLog)] = [ by |-> "main", msg |-> QUIT ]
        /\ Cardinality(PutBy(recvLog, "run")) = IF netPc = "done" THEN 1 ELSE 0
        /\ \A i \in PutBy(recvLog, "run") : recvLog[i].msg = QUIT
        /\ (\E i \in PutBy(sentLog, "ui") : sentLog[i].msg = QUIT)
               => Cardinality(Quits(sentLog)) > 1

\* C1 witness: the user has submitted ';quit', the backend has popped it and
\* returned, and the session is over with two ';quit' put for the backend.
C1_Witness ==
    /\ uiPc = "joined"
    /\ netPc = "done"
    /\ Cardinality(Quits(sentLog)) = 2
    /\ \E i \in 1..Len(netPopped) : netPopped[i].msg = QUIT

\* C2 (as stated): after _connect has failed with an exception it catches,
\* select is never called and nothing is ever put on the queue to the user
\* interface.
C2_NothingPutAfterFailedConnect ==
    ConnectFailed => selects = "none" /\ recvLog = << >>

\* C2 (amended): after _connect has failed with an exception it catches,
\* select is never called, and run puts exactly one message on the queue to
\* the user interface, ';quit', as it returns; nothing else is ever put.
C2_OnlyQuitAfterFailedConnect ==
    ConnectFailed =>
        /\ selects = "none"
        /\ recvLog = IF netPc = "done"
                     THEN << [ by |-> "run", msg |-> QUIT ] >>
                     ELSE << >>

\* C2 witness: the connect failed and the session is over.
C2_Witness == ConnectFailed /\ netPc = "done" /\ uiPc = "joined"

\* C3: a read whose bytes do not end in a line feed does not put the segment
\* after the last line feed on the queue: it puts one message for each line
\* feed of the data, all the segments but the last.
C3_PartialLineHeld ==
    \A i \in 1..Len(reads) :
        LET data == reads[i].data
        IN  (data # Empty /\ LastByte(data) # LF) =>
                reads[i].put = SubSeq(Lines(data), 1, Len(Lines(data)) - 1)

\* C4: when a line L, not empty and not ';quit', has been submitted, written
\* to the socket as L and one line feed, echoed, received in one read, and
\* the user interface has popped all that this read put, the scrollback has
\* gained exactly one entry, L.
C4_EchoRoundTrip ==
    ( /\ userLine # QUIT
      /\ Msgs(sentLog) = << userLine >>
      /\ wire = Cat(Encode(userLine), Run(LF, 1))
      /\ Len(reads) = 1
      /\ reads[1].data = wire
      /\ output_queue = << >> )
        => buffer_output = << userLine >>

\* C5: no byte is sent for a line whose lower case is ';quit'.
C5_NoSentinelOnWire ==
    \A j \in 1..Len(netPopped) :
        Lower(netPopped[j].msg) = QUIT => netPopped[j].bytes = Empty

\* C6: a read of zero bytes puts nothing on the queue to the user interface
\* and clears running; it is the last pass of the loop, the socket is
\* unregistered, no exception ends the thread, and run then puts ';quit',
\* exactly once and last.
C6_ZeroReadOneQuit ==
    \A i \in 1..Len(reads) :
        reads[i].data = Empty =>
            /\ reads[i].put = << >>
            /\ i = Len(reads)
            /\ ~running
            /\ sock = "unregistered"
            /\ netPc \in { "loop", "done" }
            /\ PutBy(recvLog, "run") =
                   IF netPc = "done" THEN { Len(recvLog) } ELSE { }

\* C6 witness: the peer closed after a read that put lines, and run returned.
C6_Witness ==
    /\ Len(reads) = 2
    /\ reads[2].data = Empty
    /\ netPc = "done"
    /\ Len(recvLog) > 1

\* C7: when the write branch pops ';quit' it sends no byte for it and clears
\* running, and select is not called again: it is the last message popped.
C7_QuitPoppedEndsLoop ==
    \A j \in 1..Len(netPopped) :
        netPopped[j].msg = QUIT =>
            /\ netPopped[j].bytes = Empty
            /\ ~running
            /\ selects # "afterQuit"
            /\ j = Len(netPopped)

\* C7 witness: ';quit' was popped after a line that was sent.
C7_Witness ==
    /\ Len(netPopped) = 2
    /\ netPopped[1].bytes # Empty
    /\ netPopped[2].msg = QUIT
    /\ netPc = "done"

\* C8: once run has returned after a successful connect, the socket is
\* unregistered from the selector and closed.
C8_SocketClosed == (netPc = "done" /\ sock # "none") => sock = "closed"

\* C9: when run has returned, the last message put on the queue to the user
\* interface is the ';quit' of run, and run puts it once: nothing is ever put
\* after it.
C9_FinalQuitLast ==
    /\ netPc = "done" =>
           /\ recvLog # << >>
           /\ recvLog[Len(recvLog)] = [ by |-> "run", msg |-> QUIT ]
    /\ \A i \in PutBy(recvLog, "run") : i = Len(recvLog) /\ netPc = "done"

\* C9 witness: the loop has ended after lines were received, and the final
\* ';quit' is on the queue behind them.
C9_Witness ==
    /\ netPc = "done"
    /\ sock = "unregistered"
    /\ Len(recvLog) >= 3
    /\ Len(output_queue) >= 2

\* C10: each queue is first in, first out: the messages put are the messages
\* popped followed by the messages queued, in both directions; the bytes on
\* the wire are the bytes of the messages popped, in that order, and the
\* scrollback is the messages popped that are shown, in that order.
C10_Fifo ==
    /\ Msgs(sentLog) = Msgs(netPopped) \o input_queue
    /\ Msgs(recvLog) = uiPopped \o output_queue
    /\ wire = CatAll(netPopped)
    /\ buffer_output = SelectSeq(uiPopped, Shown)

\* C10 witness: two different messages have been popped from each queue.
C10_Witness ==
    /\ Len(netPopped) >= 2
    /\ netPopped[1].msg # netPopped[2].msg
    /\ Len(uiPopped) >= 2
    /\ uiPopped[1] # uiPopped[2]

\* C11: after a successful connect, when the peer closes the connection,
\* the main loop of the user interface ends with no action of the user.
C11_PeerCloseEndsLoop ==
    (sock = "registered") ~> (uiPc # "init" /\ ~active)

\* C12: once client.py has put ';quit' on the queue to the backend, its join
\* returns.
C12_JoinReturns == (uiPc = "put") ~> (uiPc = "joined")

\* C12 witness: the join has returned after the backend had popped a line of
\* the user and then the ';quit' of client.py, both put while it was running.
C12_Witness ==
    /\ uiPc = "joined"
    /\ netPc = "done"
    /\ Len(netPopped) = 2
    /\ netPopped[1].bytes # Empty
    /\ sentLog[2].by = "main"

\* C13: for every message popped that is not ';quit', the empty line
\* included, the write branch sends the bytes of the line and then one line
\* feed (a pass in which a send raised set aside).
C13_LineThenTerminator ==
    \A j \in 1..Len(netPopped) :
        ( /\ netPopped[j].msg # QUIT
          /\ ~(j = Len(netPopped) /\ netPc = "crashed") )
            => netPopped[j].bytes = Cat(Encode(netPopped[j].msg), Run(LF, 1))

\* The categories of the key table
Categories ==
    { "printable", "backspace", "enter", "resize", "esc", "kill", "discard",
      "none" }

\* C14: every key code has one category, a code in no list of KEYS has the
\* category of undefined keys, and the code of a printable ASCII character
\* (32..126) is printable: its handler appends that character to the input
\* buffer.
C14_PrintableAppends ==
    handled # NoKey =>
        /\ handled.category \in Categories
        /\ (\A i \in 1..Len(KEYS) : handled.key \notin KEYS[i][2])
               => handled.category = "none"
        /\ handled.key \in 32..126 =>
               /\ handled.category = "printable"
               /\ buffer_input = Cat(handled.before, Run(handled.key, 1))

\* C15: the main thread never blocks on the queue from the backend: when
\* it calls get() after empty() returned False, the queue still holds a
\* message, whatever the backend thread has done in between.  (The backend
\* thread has no blocking get: an empty queue to the backend makes the write
\* branch do nothing.)
C15_GetNeverBlocks ==
    /\ uiPc # "blocked"
    /\ uiPc = "checked" => output_queue # << >>

\* C15 witness: the main thread is between empty() and get() for the second
\* time, and the backend thread has put several messages and has ended.
C15_Witness ==
    /\ uiPc = "checked"
    /\ Len(uiPopped) >= 1
    /\ Len(output_queue) >= 2
    /\ netPc = "done"

\* A line popped whose sends have not raised
SentWhole(j) ==
    /\ netPopped[j].msg \notin { QUIT, Empty }
    /\ ~(j = Len(netPopped) /\ netPc = "crashed")

\* C16 (as stated): the bytes sent for a line never exceed a fixed bound, the
\* slice of one send and the line feed.
C16_PayloadBounded ==
    \A j \in 1..Len(netPopped) : SLen(netPopped[j].bytes) <= SendSize + 1

\* C16 (amended): a line is not truncated: for every line popped that is not
\* empty and not ';quit', whatever its length, the bytes sent are the whole
\* line and then one line feed.
C16_WholeLineSent ==
    \A j \in 1..Len(netPopped) :
        SentWhole(j) =>
            netPopped[j].bytes = Cat(Encode(netPopped[j].msg), Run(LF, 1))

\* C16 witness: a line longer than the slice of one send has been sent,
\* with more bytes than the slice.
C16_Witness ==
    /\ Len(netPopped) = 1
    /\ SLen(netPopped[1].msg) > SendSize
    /\ SLen(wire) > SendSize + 1
    /\ netPc = "loop"

RECURSIVE CatData(_)
\* The data the read branches have split into lines, in order
CatData(log) ==
    IF log = << >> THEN Empty ELSE Cat(log[1].data, CatData(Tail(log)))

\* C17: no byte received is lost: all the bytes recv has returned (they
\* are all in output_buffer, in order) are in the data that the read
\* branches have split into lines and put, for every size of the data
\* available, unless an exception has ended the thread.
C17_NoByteLost ==
    netPc # "crashed" => CatData(reads) = output_buffer

RECURSIVE Count(_, _)
\* The number of bytes c in s
Count(s, c) ==
    IF s = << >> THEN 0
    ELSE (IF s[1][1] = c THEN s[1][2] ELSE 0) + Count(Tail(s), c)

RECURSIVE Expand(_)
\* The plain sequence of the characters of a string
Expand(s) ==
    IF s = << >> THEN << >>
    ELSE [ i \in 1..s[1][2] |-> s[1][1] ] \o Expand(Tail(s))

RECURSIVE JoinLF(_)
\* The characters of the lines of one read, with the line feeds between
JoinLF(lines) ==
    IF Len(lines) = 1 THEN Expand(lines[1])
    ELSE Expand(lines[1]) \o << LF >> \o JoinLF(Tail(lines))

\* The value of a lowercase hexadecimal digit, -1 for any other character
HexValue(c) ==
    IF c \in 48..57 THEN c - 48
    ELSE IF c \in 97..102 THEN c - 87
    ELSE -1

\* Whether the characters t are the token of byte b: the byte itself when
\* it is in string.printable, else \xHH with its value in lowercase hex
IsToken(t, b) ==
    IF b \in Printable THEN t = << b >>
    ELSE /\ Len(t) = 4
         /\ t[1] = 92
         /\ t[2] = 120
         /\ HexValue(t[3]) >= 0
         /\ HexValue(t[4]) >= 0
         /\ HexValue(t[3]) * 16 + HexValue(t[4]) = b

RECURSIVE Tokens(_, _)
\* Whether the characters text are the tokens of the bytes, one for each
\* byte, in order
Tokens(text, bytes) ==
    IF bytes = << >> THEN text = << >>
    ELSE LET k == IF bytes[1] \in Printable THEN 1 ELSE 4
         IN  /\ Len(text) >= k
             /\ IsToken(SubSeq(text, 1, k), bytes[1])
             /\ Tokens(SubSeq(text, k + 1, Len(text)), Tail(bytes))

FromServer(e) == e.by = "io"

\* C19: every line decoded from socket bytes that the user interface has
\* popped is in the scrollback, whatever its text: the scrollback is the
\* lines of the read branch among the messages popped, in order.
C19_ServerLinesShown ==
    buffer_output =
        Msgs(SelectSeq(SubSeq(recvLog, 1, Len(uiPopped)), FromServer))

\* C20: the backend thread never ends, by returning from run or by an
\* exception, without run having put ';quit' on the queue to the user
\* interface.
C20_QuitBeforeEnd ==
    netPc \in { "done", "crashed" } => PutBy(recvLog, "run") # { }

=============================================================================
